---- MODULE Spec2Model ----
(***************************************************************************)
(* Model of ProjectFilesStore (app/lib/stores/project-files): the          *)
(* write-behind engine that mirrors the virtual filesystem to per-project  *)
(* storage.  One action per method, timer callback or continuation after   *)
(* an await; the event loop runs each of them to the next await.           *)
(***************************************************************************)
EXTENDS Integers, Sequences, FiniteSets, TLC

\* ---------------------------------------------------------------- bounds
MaxTime == 1      \* clock values 0..MaxTime (new Date() readings)
MaxCalls == 1     \* writeFile calls suspended at an await at the same time
MaxOverlap == 2   \* the same, where the caller does not await the previous call
MaxSrvReqs == 2   \* requests the server is processing at the same time
MaxRemoves == 1   \* removeFile calls suspended at super.removeFile
MaxFg == 1        \* syncToProject requests outstanding at the same time
MaxDel == 1       \* delete requests outstanding at the same time
MaxBg == 2        \* background requests outstanding (the guard keeps it at 1)
MaxRetry == 1     \* pending 100 ms follow-up timeouts
MaxTimers == 2    \* interval handles that can be live at the same time
MaxRemote == 2    \* remote paths listed for one loadProjectFiles

\* ---------------------------------------------------------------- values
Null == "null"
Never == 0 - 1               \* lastSyncedAt: null, among the clock readings
ProjectIds == {"A", "B"}
Paths == {"/a.txt", "/b.png", "/lib"}
Contents == {"1", "2"}
NulContents == {}            \* contents holding a NUL character (none drawn)
TimerIds == 1..MaxTimers
Outcomes == {"ok", "notok", "reject"}
Folder == "folder"           \* a dirent of type folder in the files map
Dirs == {"/lib"}             \* paths the watcher reports as folders
LoadContents == {"1"}        \* bodies of the per-file responses of a load

VARIABLES
  projectId,      \* #projectId
  syncInterval,   \* #syncInterval: a handle in TimerIds, or 0 for null
  timers,         \* live setInterval timers: handle -> project bound at creation, or Null when not live
  syncQueue,      \* #syncQueue: Map in insertion order, <<[path, content, isBinary]>>
  isSyncing,      \* #isSyncing
  projectState,   \* projectState: [project, syncing, lastSyncedAt]
  files,          \* the virtual filesystem map: path -> content of a file, Folder, or Null
  writeCalls,     \* writeFile calls suspended at await super.writeFile: [path, content, n, behind]
  removeCalls,    \* removeFile calls suspended at super.removeFile: paths
  bgReqs,         \* outstanding batch-write fetches of #processSyncQueue: [projectId, files]
  fgReqs,         \* outstanding batch-write fetches of syncToProject: [projectId, files]
  delReqs,        \* outstanding delete fetches of removeFile: [projectId, path]
  retryTimeouts,  \* pending setTimeout(..., 100) callbacks
  now,            \* the wall clock
  load,           \* loadProjectFiles: [pc, rest, failed, wrote, logged]
  meta,           \* the store: project -> its .bolt/metadata.json, or NoMeta
  projDir,        \* the store: project -> its directory exists
  disk,           \* the store: project -> path -> content of the file, or Null
  srvReqs,        \* requests the server is processing
  removed,        \* history: paths removeFile has removed under the present binding, with no writeFile call pending or made since
  origin,         \* history: path -> project bound when its queued or in-flight entry was enqueued
  fresh,          \* history: path -> content last enqueued by writeFile, per queue generation
  sealed,         \* history: TRUE when fresh is the generation that the last drain took
  owed,           \* history: path -> content last enqueued by writeFile under the present binding and not yet in a successful batch
  lastOp          \* history: the name of the last step

vars == <<projectId, syncInterval, timers, syncQueue, isSyncing, projectState,
          files, writeCalls, removeCalls, bgReqs, fgReqs, delReqs, retryTimeouts, now,
          load, meta, projDir, disk, srvReqs, removed, origin, fresh, sealed, owed, lastOp>>

\* ------------------------------------------------------- Map operations
RECURSIVE IndexOfPath(_, _, _)
IndexOfPath(q, path, i) ==
  IF i > Len(q) THEN 0
  ELSE IF q[i].path = path THEN i ELSE IndexOfPath(q, path, i + 1)

\* Map.prototype.set: an existing key keeps its position and gets the new value
MapSet(q, path, data) ==
  LET i == IndexOfPath(q, path, 1)
      e == [path |-> path, content |-> data.content, isBinary |-> data.isBinary]
  IN IF i = 0 THEN Append(q, e) ELSE [q EXCEPT ![i] = e]

MapHas(q, path) == IndexOfPath(q, path, 1) # 0
MapGet(q, path) == IF MapHas(q, path) THEN q[IndexOfPath(q, path, 1)].content ELSE Null
MapKeys(q) == {q[i].path : i \in 1..Len(q)}

\* files.forEach(file => this.#syncQueue.set(file.path, {...}))
RECURSIVE SetAll(_, _, _)
SetAll(q, fs, i) ==
  IF i > Len(fs) THEN q
  ELSE SetAll(MapSet(q, fs[i].path, fs[i]), fs, i + 1)

\* ------------------------------------------------------------ isFileBinary
\* lastIndexOf('.') is -1 for a path without a dot: substring(-1) is the whole path
Ext(path) ==
  CASE path = "/a.txt" -> ".txt" [] path = "/b.png" -> ".png" [] OTHER -> path
binaryExtensions == {".jpg", ".jpeg", ".png", ".gif", ".pdf", ".zip", ".exe", ".dll"}
isFileBinary(path, content) ==
  IF Ext(path) \in binaryExtensions THEN TRUE ELSE content \in NulContents

NoFresh == [p \in Paths |-> Null]

\* no metadata file: getProjectMetadata returns null
NoMeta == [name |-> Null, opened |-> FALSE]

\* no loadProjectFiles is running
LoadIdle == [pc |-> "idle", rest |-> <<>>, failed |-> {}, wrote |-> {}, logged |-> <<>>]

Init ==
  /\ projectId = Null
  /\ syncInterval = 0
  /\ timers = [t \in TimerIds |-> Null]
  /\ syncQueue = <<>>
  /\ isSyncing = FALSE
  /\ projectState = [project |-> Null, syncing |-> FALSE, lastSyncedAt |-> Never]
  /\ files = [p \in Paths |-> Null]
  /\ writeCalls = {}
  /\ removeCalls = {}
  /\ bgReqs = {}
  /\ fgReqs = {}
  /\ delReqs = {}
  /\ retryTimeouts = 0
  /\ now = 0
  /\ load = LoadIdle
  /\ meta = [p \in ProjectIds |-> NoMeta]
  /\ projDir = [p \in ProjectIds |-> FALSE]
  /\ disk = [p \in ProjectIds |-> [f \in Paths |-> Null]]
  /\ srvReqs = {}
  /\ removed = {}
  /\ origin = NoFresh
  /\ fresh = NoFresh
  /\ sealed = FALSE
  /\ owed = NoFresh
  /\ lastOp = "init"

\* ------------------------------------------------------------ setProject
\* a setProject that forgets clearInterval: the old timer stays live
ClearInterval_Leak(ts, h) == ts

\* clearInterval(this.#syncInterval); this.#syncInterval = null
ClearInterval(ts, h) == IF h # 0 THEN [ts EXCEPT ![h] = Null] ELSE ts

FreeTimers(ts) == {t \in TimerIds : ts[t] = Null}
NewTimer(ts) == CHOOSE t \in FreeTimers(ts) : \A u \in FreeTimers(ts) : t <= u

\* a #startAutoSync that creates no timer
StartAutoSync_NoTimer(ts, pid) == ts

\* #startAutoSync: this.#syncInterval = setInterval(..., 5000)
StartAutoSync(ts, pid) == [ts EXCEPT ![NewTimer(ts)] = pid]

SetProject(project) ==
  LET cleared == ClearInterval(timers, syncInterval)
  IN /\ (project # Null => FreeTimers(cleared) # {})
     /\ projectId' = project
     /\ projectState' = [project |-> project, syncing |-> FALSE, lastSyncedAt |-> Never]
     /\ IF project # Null
        THEN /\ timers' = StartAutoSync(cleared, project)
             /\ syncInterval' = NewTimer(cleared)
        ELSE /\ timers' = cleared
             /\ syncInterval' = 0
     /\ owed' = NoFresh
     /\ lastOp' = "setProject"
     /\ removed' = {}
     /\ UNCHANGED <<syncQueue, isSyncing, files, writeCalls, removeCalls, bgReqs,
                    fgReqs, delReqs, retryTimeouts, now, fresh, sealed, load,
                 meta, projDir, disk, srvReqs, origin>>

Dispose ==
  /\ timers' = ClearInterval(timers, syncInterval)
  /\ syncInterval' = 0
  /\ lastOp' = "dispose"
  /\ UNCHANGED <<projectId, syncQueue, isSyncing, projectState, files, writeCalls,
                 removeCalls, bgReqs, fgReqs, delReqs, retryTimeouts, now, fresh, sealed, owed, load,
                 meta, projDir, disk, srvReqs, removed, origin>>

\* ------------------------------------------------------ #processSyncQueue
\* the guard of line 211
GuardReturns(q) == isSyncing \/ Len(q) = 0 \/ projectId = Null

\* Array.from(this.#syncQueue.entries()).map(...)
Snapshot(q) == q

\* a drain that leaves the entries in the queue while the batch is sent
QueueAfterDrain_Kept(q) == q

\* this.#syncQueue.clear(), before the fetch
QueueAfterDrain(q) == <<>>

\* the project id appended to the form data, read when the request is built
RequestProjectId == projectId

\* the writes enqueued since the last drain
During == IF sealed THEN NoFresh ELSE fresh

\* #processSyncQueue up to its await, called with the queue q by the step
\* named op; fr is the history of the writes enqueued since the last drain,
\* og that of the bindings the entries of q were enqueued under
ProcessSyncQueue(q, fr, og, op) ==
  IF GuardReturns(q)
  THEN /\ syncQueue' = q
       /\ fresh' = fr
       /\ origin' = og
       /\ sealed' = FALSE
       /\ lastOp' = IF op = "enqueue" THEN op ELSE "step"
       /\ UNCHANGED <<isSyncing, projectState, bgReqs>>
  ELSE /\ Cardinality(bgReqs) < MaxBg
       /\ [projectId |-> RequestProjectId, files |-> Snapshot(q)] \notin bgReqs
       /\ isSyncing' = TRUE
       /\ projectState' = [projectState EXCEPT !.syncing = TRUE]
       /\ syncQueue' = QueueAfterDrain(q)
       /\ bgReqs' = bgReqs \cup {[projectId |-> RequestProjectId, files |-> Snapshot(q)]}
       /\ fresh' = fr
       /\ origin' = NoFresh
       /\ sealed' = TRUE
       /\ lastOp' = op \o "Send"

\* the re-queue of lines 241-247: only the non-ok response reaches it
Requeue(q, fs, outcome) == IF outcome = "notok" THEN SetAll(q, fs, 1) ELSE q

\* a failure handler that leaves syncing set
StateOnFailure_Stuck(ps) == ps

\* projectState.set({...get(), syncing: false}) of the catch
StateOnFailure(ps) == [ps EXCEPT !.syncing = FALSE]

\* a success handler that clears syncing and leaves the timestamp alone
StateOnSuccess_KeepsStamp(ps, t) == [ps EXCEPT !.syncing = FALSE]

\* projectState.set({...get(), syncing: false, lastSyncedAt: new Date()...})
StateOnSuccess(ps, t) == [ps EXCEPT !.syncing = FALSE, !.lastSyncedAt = t]

\* how the promise of #processSyncQueue settles: the catch of line 254 takes
\* the rejected fetch and the throw of line 246, and rethrows nothing
ProcessSyncQueueResult(outcome) == "resolved"

BgOpName(outcome) ==
  CASE ProcessSyncQueueResult(outcome) = "rejected" -> "bgThrows"
    [] outcome = "ok" -> "bgOk" [] outcome = "notok" -> "bgNotOk" [] OTHER -> "bgReject"

\* the continuation of #processSyncQueue after its fetch settles
BgComplete(r, outcome) ==
  LET q == Requeue(syncQueue, r.files, outcome)
  IN /\ r \in bgReqs
     /\ (Len(q) > 0 => retryTimeouts < MaxRetry)
     /\ bgReqs' = bgReqs \ {r}
     /\ syncQueue' = q
     /\ projectState' = IF outcome = "ok" THEN StateOnSuccess(projectState, now)
                        ELSE StateOnFailure(projectState)
     /\ isSyncing' = FALSE
     /\ retryTimeouts' = IF Len(q) > 0 THEN retryTimeouts + 1 ELSE retryTimeouts
     /\ owed' = IF outcome = "ok"
                THEN [p \in Paths |-> IF \E i \in 1..Len(r.files) :
                                           r.files[i].path = p /\ r.files[i].content = owed[p]
                                      THEN Null ELSE owed[p]]
                ELSE owed
     /\ lastOp' = BgOpName(outcome)
     /\ origin' = [p \in Paths |->
                     IF ~MapHas(q, p) THEN Null
                     ELSE IF outcome = "notok" /\ p \in {r.files[i].path : i \in 1..Len(r.files)}
                          THEN r.projectId ELSE origin[p]]
     /\ fresh' = During
     /\ sealed' = FALSE
     /\ UNCHANGED <<projectId, syncInterval, timers, files, writeCalls, removeCalls,
                    fgReqs, delReqs, now, load, meta, projDir, disk, srvReqs, removed>>

\* setTimeout(() => this.#processSyncQueue(), 100)
RetryTimeoutFire ==
  /\ retryTimeouts > 0
  /\ retryTimeouts' = retryTimeouts - 1
  /\ ProcessSyncQueue(syncQueue, During, origin, "retry")
  /\ UNCHANGED <<projectId, syncInterval, timers, files, writeCalls, removeCalls,
                 fgReqs, delReqs, now, owed, load,
                 meta, projDir, disk, srvReqs, removed>>

\* the setInterval callback of #startAutoSync
Tick(t) ==
  /\ timers[t] # Null
  /\ IF Len(syncQueue) > 0
     THEN ProcessSyncQueue(syncQueue, During, origin, "tick")
     ELSE /\ lastOp' = "step"
          /\ UNCHANGED <<syncQueue, fresh, sealed, isSyncing, projectState, bgReqs, origin>>
  /\ UNCHANGED <<projectId, syncInterval, timers, files, writeCalls, removeCalls,
                 fgReqs, delReqs, retryTimeouts, now, owed, load,
                 meta, projDir, disk, srvReqs, removed>>

\* -------------------------------------------------------- loadProjectFiles
\* the for loop moves to the next path of the list, or the load completes
LoadNext(l) ==
  [l EXCEPT !.rest = Tail(l.rest),
            !.pc = IF Len(l.rest) > 1 THEN "file" ELSE "done"]

\* logger.error(`Failed to load file ...`) is in the catch: a rejected fetch
\* reaches it, a non-ok response skips the if and reaches nothing
LoadLogged(logged, path, outcome) ==
  IF outcome = "reject" THEN Append(logged, path) ELSE logged

\* await this.writeFile(filePath, content) of the loop has resolved
LoadAfterWrite(l, path) ==
  IF l.pc = "write" /\ Head(l.rest) = path
  THEN LoadNext([l EXCEPT !.wrote = l.wrote \cup {path}])
  ELSE l

\* --------------------------------------------------------------- writeFile
\* FilesStore.writeFile (the parent class): the file lands in the files map
SuperWriteFile(fm, path, content) == [fm EXCEPT ![path] = content]
\* FilesStore.removeFile (the parent class)
SuperRemoveFile(fm, path) == [fm EXCEPT ![path] = Null]

\* a writeFile call: n is its place in the order of the calls still suspended,
\* behind the content that a later call to its path has put in the queue
NewCall(calls, path, content) ==
  [path |-> path, content |-> content, n |-> Cardinality(calls) + 1, behind |-> Null]

\* the calls left when c has resumed, in the order they were made; a call made
\* before c for the same path has a later write ahead of it in the queue
CallsAfter(calls, c, queued) ==
  {[d EXCEPT !.n = Cardinality({e \in calls \ {c} : e.n <= d.n}),
             !.behind = IF queued /\ d.path = c.path /\ d.n < c.n
                        THEN c.content ELSE d.behind] : d \in calls \ {c}}

\* writeFile is called: it suspends at await super.writeFile(...)
WriteFile(path, content) ==
  /\ Cardinality(writeCalls) < MaxOverlap
  /\ writeCalls' = writeCalls \cup {NewCall(writeCalls, path, content)}
  /\ lastOp' = "step"
  /\ removed' = removed \ {path}
  /\ UNCHANGED <<projectId, syncInterval, timers, syncQueue, isSyncing, projectState,
                 files, removeCalls, bgReqs, fgReqs, delReqs, retryTimeouts, now, fresh, sealed, owed, load,
                 meta, projDir, disk, srvReqs, origin>>

\* a writeFile that queues with no project bound
ShouldQueue_Always(pid) == TRUE

\* if (this.#projectId)
ShouldQueue(pid) == pid # Null

\* super.writeFile resolved.  Lines 102-105 run in the same turn of the event
\* loop: isFileBinary has no await of its own, so awaiting it resumes in the
\* same microtask checkpoint, before any timer, fetch or user event
WriteFileResumed(c) ==
  /\ c \in writeCalls
  /\ writeCalls' = CallsAfter(writeCalls, c, ShouldQueue(projectId))
  /\ files' = SuperWriteFile(files, c.path, c.content)
  /\ IF ShouldQueue(projectId)
     THEN /\ ProcessSyncQueue(
               MapSet(syncQueue, c.path,
                      [content |-> c.content, isBinary |-> isFileBinary(c.path, c.content)]),
               [During EXCEPT ![c.path] = c.content],
               [origin EXCEPT ![c.path] = projectId],
               "enqueue")
          /\ owed' = [owed EXCEPT ![c.path] = c.content]
     ELSE /\ lastOp' = "step"
          /\ UNCHANGED <<syncQueue, fresh, sealed, owed, isSyncing, projectState, bgReqs,
                         origin>>
  /\ load' = LoadAfterWrite(load, c.path)
  /\ UNCHANGED <<projectId, syncInterval, timers, removeCalls, fgReqs, delReqs,
                 retryTimeouts, now, meta, projDir, disk, srvReqs, removed>>

\* -------------------------------------------------------------- removeFile
RemoveFile(path) ==
  /\ Cardinality(removeCalls) < MaxRemoves
  /\ path \notin removeCalls
  /\ removeCalls' = removeCalls \cup {path}
  /\ lastOp' = "step"
  /\ UNCHANGED <<projectId, syncInterval, timers, syncQueue, isSyncing, projectState,
                 files, writeCalls, bgReqs, fgReqs, delReqs, retryTimeouts, now, fresh, sealed, owed, load,
                 meta, projDir, disk, srvReqs, removed, origin>>

\* super.removeFile resolved: with a project bound the delete call is sent
RemoveFileResumed(path) ==
  /\ path \in removeCalls
  /\ removeCalls' = removeCalls \ {path}
  /\ files' = SuperRemoveFile(files, path)
  /\ IF projectId # Null
     THEN /\ Cardinality(delReqs) < MaxDel
          /\ [projectId |-> RequestProjectId, path |-> path] \notin delReqs
          /\ delReqs' = delReqs \cup {[projectId |-> RequestProjectId, path |-> path]}
          /\ lastOp' = "deleteSend"
     ELSE /\ delReqs' = delReqs
          /\ lastOp' = "step"
  /\ removed' = IF projectId # Null /\ \A c \in writeCalls : c.path # path
                THEN removed \cup {path} ELSE removed
  /\ UNCHANGED <<projectId, syncInterval, timers, syncQueue, isSyncing, projectState,
                 writeCalls, bgReqs, fgReqs, retryTimeouts, now, fresh, sealed, owed, load,
                 meta, projDir, disk, srvReqs, origin>>

\* a removeFile that lets the rejection of its delete call out
RemoveFileResult_Rethrows(outcome) ==
  IF outcome = "reject" THEN "rejected" ELSE "resolved"

\* how the promise of removeFile settles: the response is not inspected and
\* the catch of line 128 logs a rejected fetch
RemoveFileResult(outcome) == "resolved"

\* the delete fetch settles: the response is not inspected, a rejection is logged
DeleteComplete(r, outcome) ==
  /\ r \in delReqs
  /\ delReqs' = delReqs \ {r}
  /\ lastOp' = IF RemoveFileResult(outcome) = "rejected" THEN "deleteThrows" ELSE "step"
  /\ UNCHANGED <<projectId, syncInterval, timers, syncQueue, isSyncing, projectState,
                 files, writeCalls, removeCalls, bgReqs, fgReqs, retryTimeouts, now,
                 fresh, sealed, owed, load,
                 meta, projDir, disk, srvReqs, removed, origin>>

\* ----------------------------------------------------------- syncToProject
\* the entries of type file of this.files.get(), in a fixed enumeration order
\* a collection that takes every dirent, folders too
IsFileDirent_Any(d) == d # Null

\* dirent?.type === 'file'
IsFileDirent(d) == d # Null /\ d # Folder

RECURSIVE FilesToSync(_, _)
FilesToSync(fm, ps) ==
  IF ps = {} THEN <<>>
  ELSE LET p == CHOOSE x \in ps : TRUE
           rest == FilesToSync(fm, ps \ {p})
       IN IF IsFileDirent(fm[p])
          THEN <<[path |-> p, content |-> fm[p], isBinary |-> FALSE]>> \o rest
          ELSE rest

\* a syncToProject without the check of line 138
SyncToProjectThrowsEarly_Never(pid) == FALSE

\* if (!this.#projectId) throw new Error('No project set for syncing')
SyncToProjectThrowsEarly(pid) == pid = Null

SyncToProject ==
  IF SyncToProjectThrowsEarly(projectId)
  THEN /\ lastOp' = "syncThrowsNoProject"
       /\ UNCHANGED <<projectId, syncInterval, timers, syncQueue, isSyncing,
                      projectState, files, writeCalls, removeCalls, bgReqs, fgReqs,
                      delReqs, retryTimeouts, now, fresh, sealed, owed, load,
                 meta, projDir, disk, srvReqs, removed, origin>>
  ELSE LET fs == FilesToSync(files, Paths)
       IN /\ IF Len(fs) > 0
             THEN /\ Cardinality(fgReqs) < MaxFg
                  /\ [projectId |-> RequestProjectId, files |-> fs] \notin fgReqs
                  /\ projectState' = [projectState EXCEPT !.syncing = TRUE]
                  /\ fgReqs' = fgReqs \cup {[projectId |-> RequestProjectId, files |-> fs]}
                  /\ lastOp' = "syncSend"
             ELSE /\ projectState' = StateOnSuccess([projectState EXCEPT !.syncing = TRUE], now)
                  /\ fgReqs' = fgReqs
                  /\ lastOp' = "step"
          /\ UNCHANGED <<projectId, syncInterval, timers, syncQueue, isSyncing, files,
                         writeCalls, removeCalls, bgReqs, delReqs, retryTimeouts, now,
                         fresh, sealed, owed, load,
                 meta, projDir, disk, srvReqs, removed, origin>>

\* a syncToProject whose catch swallows the failure
SyncToProjectResult_Swallowed(outcome) == "resolved"

\* how the promise of syncToProject settles: the catch of line 184 rethrows
SyncToProjectResult(outcome) == IF outcome = "ok" THEN "resolved" ELSE "rejected"

\* the fetch of syncToProject settles
FgComplete(r, outcome) ==
  /\ r \in fgReqs
  /\ fgReqs' = fgReqs \ {r}
  /\ projectState' = IF outcome = "ok" THEN StateOnSuccess(projectState, now)
                     ELSE StateOnFailure(projectState)
  /\ lastOp' = CASE SyncToProjectResult(outcome) = "rejected" -> "fgThrows"
                 [] outcome = "ok" -> "fgOk"
                 [] OTHER -> "step"
  /\ UNCHANGED <<projectId, syncInterval, timers, syncQueue, isSyncing, files,
                 writeCalls, removeCalls, bgReqs, delReqs, retryTimeouts, now, fresh, sealed, owed, load,
                 meta, projDir, disk, srvReqs, removed, origin>>

\* ------------------------------------------------------------------ folders
\* the watcher of the parent class reports a new folder
MkDir(path) ==
  /\ files[path] = Null
  /\ files' = [files EXCEPT ![path] = Folder]
  /\ lastOp' = "step"
  /\ UNCHANGED <<projectId, syncInterval, timers, syncQueue, isSyncing, projectState,
                 writeCalls, removeCalls, bgReqs, fgReqs, delReqs, retryTimeouts, now,
                 load, fresh, sealed, owed,
                 meta, projDir, disk, srvReqs, removed, origin>>

\* -------------------------------------------------------- loadProjectFiles
\* the lists of remote paths a project can answer with: no path twice
RECURSIVE ListsOver(_, _)
ListsOver(ps, n) ==
  IF n = 0 THEN {<<>>}
  ELSE {<<>>} \cup {<<p>> \o l : p \in ps, l \in ListsOver(ps, n - 1)}
RemoteLists ==
  {l \in ListsOver(Paths, MaxRemote) : \A i, j \in 1..Len(l) : l[i] = l[j] => i = j}

\* loadProjectFiles is called: it suspends at the fetch of the list
LoadProjectFiles(list) ==
  /\ load.pc \in {"idle", "done", "threw"}
  /\ load' = [pc |-> "list", rest |-> list, failed |-> {}, wrote |-> {}, logged |-> <<>>]
  /\ lastOp' = "step"
  /\ UNCHANGED <<projectId, syncInterval, timers, syncQueue, isSyncing, projectState,
                 files, writeCalls, removeCalls, bgReqs, fgReqs, delReqs, retryTimeouts,
                 now, fresh, sealed, owed,
                 meta, projDir, disk, srvReqs, removed, origin>>

\* the fetch of the list settles: a failure is logged and rethrown
LoadListSettles(outcome) ==
  /\ load.pc = "list"
  /\ load' = [load EXCEPT !.pc = IF outcome # "ok" THEN "threw"
                                 ELSE IF Len(load.rest) > 0 THEN "file" ELSE "done"]
  /\ lastOp' = "step"
  /\ UNCHANGED <<projectId, syncInterval, timers, syncQueue, isSyncing, projectState,
                 files, writeCalls, removeCalls, bgReqs, fgReqs, delReqs, retryTimeouts,
                 now, fresh, sealed, owed,
                 meta, projDir, disk, srvReqs, removed, origin>>

\* the fetch of the file at the head of the list settles: an ok response is
\* written through this.writeFile, any other outcome skips the file
LoadFileSettles(outcome, content) ==
  LET path == Head(load.rest)
      c == NewCall(writeCalls, path, content)
  IN /\ load.pc = "file"
     /\ IF outcome = "ok"
        THEN /\ Cardinality(writeCalls) < MaxOverlap
             /\ writeCalls' = writeCalls \cup {c}
             /\ load' = [load EXCEPT !.pc = "write"]
             /\ lastOp' = "step"
        ELSE /\ writeCalls' = writeCalls
             /\ load' = LoadNext([load EXCEPT
                            !.failed = load.failed \cup {path},
                            !.logged = LoadLogged(load.logged, path, outcome)])
             /\ lastOp' = "step"
     /\ removed' = IF outcome = "ok" THEN removed \ {Head(load.rest)} ELSE removed
     /\ UNCHANGED <<projectId, syncInterval, timers, syncQueue, isSyncing, projectState,
                    files, removeCalls, bgReqs, fgReqs, delReqs, retryTimeouts,
                    now, fresh, sealed, owed,
                 meta, projDir, disk, srvReqs, origin>>

\* ------------------------------------------------------------ project store
\* ProjectStorage and the routes in front of it.  Each request runs to its next
\* await in one step; the requests the server is processing interleave at
\* their awaits.  A metadata file is [name, opened]: updatedAt, rewritten by
\* every save, is not tracked.
clientVars == <<projectId, syncInterval, timers, syncQueue, isSyncing, projectState,
                files, writeCalls, removeCalls, bgReqs, fgReqs, delReqs, retryTimeouts,
                now, load, removed, origin, fresh, sealed, owed, lastOp>>

StoredProjects == {"A"}      \* ids createProject has generated; "B" is never created
BatchLists ==
  {<<[path |-> "/a.txt", content |-> "1"]>>,
   <<[path |-> "/a.txt", content |-> "1"], [path |-> "/b.png", content |-> "1"]>>}
FsOutcomes == {"ok", "fail"}

\* createProject: the directory, the metadata file and the default structure
CreateProject(p) ==
  /\ meta[p] = NoMeta /\ ~projDir[p]
  /\ projDir' = [projDir EXCEPT ![p] = TRUE]
  /\ meta' = [meta EXCEPT ![p] = [name |-> "n0", opened |-> FALSE]]
  /\ UNCHANGED <<disk, srvReqs, clientVars>>

NewRequest(kind, project, fs, name) ==
  [kind |-> kind, project |-> project, files |-> fs, name |-> name,
   k |-> 1, pc |-> "start", cur |-> NoMeta, wrote |-> {}, status |-> 0, count |-> 0,
   failedAt |-> 0]

\* a request arrives at a route: the batch-write action of api.projects.files,
\* the update and open actions of api.projects
SrvReceive(kind, project, fs, name) ==
  LET r == NewRequest(kind, project, fs, name)
  IN /\ Cardinality(srvReqs) < MaxSrvReqs
     /\ r \notin srvReqs
     /\ srvReqs' = srvReqs \cup
          {[r EXCEPT !.pc = IF kind = "batch" THEN "write" ELSE "read"]}
     /\ UNCHANGED <<meta, projDir, disk, clientVars>>

\* a batch-write that goes on with the next file after a failed write
BatchFailed_GoesOn(r) ==
  IF r.k < Len(r.files) THEN [r EXCEPT !.k = r.k + 1, !.pc = "write"]
  ELSE [r EXCEPT !.pc = "done", !.status = 200, !.count = Len(r.files)]

\* an error thrown by storage.writeFile leaves the for loop and reaches the
\* catch of the action: status 500 for the whole batch
BatchFailed(r) == [r EXCEPT !.pc = "done", !.status = 500, !.failedAt = r.k]

\* storage.writeFile: fs.mkdir(dir, {recursive}) and fs.writeFile(fullPath),
\* which either writes the file or throws
SrvFsWrite(r, outcome) ==
  LET f == r.files[r.k]
  IN /\ r \in srvReqs /\ r.pc = "write"
     /\ projDir' = [projDir EXCEPT ![r.project] = TRUE]
     /\ IF outcome = "ok"
        THEN /\ disk' = [disk EXCEPT ![r.project][f.path] = f.content]
             /\ srvReqs' = (srvReqs \ {r}) \cup
                  {[r EXCEPT !.pc = "read", !.wrote = r.wrote \cup {r.k}]}
        ELSE /\ disk' = disk
             /\ srvReqs' = (srvReqs \ {r}) \cup {BatchFailed(r)}
     /\ UNCHANGED <<meta, clientVars>>

\* updateProjectMetadata: const current = await this.getProjectMetadata(...);
\* a project without metadata throws `Project ... not found`
SrvReadMeta(r) ==
  /\ r \in srvReqs /\ r.pc = "read"
  /\ srvReqs' = (srvReqs \ {r}) \cup
       {IF meta[r.project] = NoMeta
        THEN (IF r.kind = "batch" THEN BatchFailed(r)
              ELSE [r EXCEPT !.pc = "done", !.status = 500])
        ELSE [r EXCEPT !.pc = "save", !.cur = meta[r.project]]}
  /\ UNCHANGED <<meta, projDir, disk, clientVars>>

\* the updates of a request: writeFile passes updatedAt only, the update
\* action the name, the open action lastOpenedAt
\* {...current, ...updates, updatedAt}
MergeMeta(cur, r) ==
  [name |-> IF r.kind = "update" THEN r.name ELSE cur.name,
   opened |-> IF r.kind = "open" THEN TRUE ELSE cur.opened]

\* updateProjectMetadata: await this.saveMetadata(projectId, updated), and
\* what the request does next
SrvSaveMeta(r) ==
  /\ r \in srvReqs /\ r.pc = "save"
  /\ meta' = [meta EXCEPT ![r.project] = MergeMeta(r.cur, r)]
  /\ projDir' = [projDir EXCEPT ![r.project] = TRUE]
  /\ srvReqs' = (srvReqs \ {r}) \cup
       {IF r.kind = "batch" /\ r.k < Len(r.files)
        THEN [r EXCEPT !.k = r.k + 1, !.pc = "write", !.cur = NoMeta]
        ELSE [r EXCEPT !.pc = "done", !.status = 200, !.cur = NoMeta,
                       !.count = IF r.kind = "batch" THEN Len(r.files) ELSE 0]}
  /\ UNCHANGED <<disk, clientVars>>

\* the response of a finished request has been delivered
SrvForget(r) ==
  /\ r \in srvReqs /\ r.pc = "done"
  /\ srvReqs' = srvReqs \ {r}
  /\ UNCHANGED <<meta, projDir, disk, clientVars>>

\* -------------------------------------------------------------------- clock
AdvanceClock ==
  /\ now < MaxTime
  /\ now' = now + 1
  /\ lastOp' = "step"
  /\ UNCHANGED <<projectId, syncInterval, timers, syncQueue, isSyncing, projectState,
                 files, writeCalls, removeCalls, bgReqs, fgReqs, delReqs,
                 retryTimeouts, fresh, sealed, owed, load,
                 meta, projDir, disk, srvReqs, removed, origin>>

\* ---------------------------------------------------------- specifications
\* Spec runs the operations of the store but the load on one file and one
\* folder; SpecSync runs
\* the queue, the background batches, the timers and the binding on two paths
\* with two contents for the first
AllWrites == {<<"/a.txt", "1">>}
AllRemoves == {"/a.txt"}
SyncWrites == {<<"/a.txt", "1">>, <<"/a.txt", "2">>, <<"/b.png", "1">>}

Next ==
  \/ \E project \in ProjectIds \cup {Null} : SetProject(project)
  \/ Dispose
  \/ \E w \in AllWrites : Cardinality(writeCalls) < MaxCalls /\ WriteFile(w[1], w[2])
  \/ \E c \in writeCalls : WriteFileResumed(c)
  \/ \E path \in AllRemoves : RemoveFile(path)
  \/ \E path \in removeCalls : RemoveFileResumed(path)
  \/ SyncToProject
  \/ \E path \in Dirs : MkDir(path)
  \/ \E r \in bgReqs, outcome \in Outcomes : BgComplete(r, outcome)
  \/ \E r \in fgReqs, outcome \in Outcomes : FgComplete(r, outcome)
  \/ \E r \in delReqs, outcome \in Outcomes : DeleteComplete(r, outcome)
  \/ RetryTimeoutFire
  \/ \E t \in TimerIds : Tick(t)
  \/ AdvanceClock

Spec == Init /\ [][Next]_vars

NextSync ==
  \/ \E project \in ProjectIds \cup {Null} : SetProject(project)
  \/ Dispose
  \/ \E w \in SyncWrites : Cardinality(writeCalls) < MaxCalls /\ WriteFile(w[1], w[2])
  \/ \E c \in writeCalls : WriteFileResumed(c)
  \/ \E r \in bgReqs, outcome \in Outcomes : BgComplete(r, outcome)
  \/ RetryTimeoutFire
  \/ \E t \in TimerIds : Tick(t)
  \/ AdvanceClock

SpecSync == Init /\ [][NextSync]_vars

\* the same without the clock, with the scheduling the event loop guarantees:
\* a pending timeout fires, a live interval keeps firing, an awaited virtual
\* filesystem write resolves and an outstanding fetch settles
NextLive ==
  \/ \E project \in ProjectIds \cup {Null} : SetProject(project)
  \/ Dispose
  \/ \E w \in SyncWrites : Cardinality(writeCalls) < MaxCalls /\ WriteFile(w[1], w[2])
  \/ \E c \in writeCalls : WriteFileResumed(c)
  \/ \E r \in bgReqs, outcome \in Outcomes : BgComplete(r, outcome)
  \/ RetryTimeoutFire
  \/ \E t \in TimerIds : Tick(t)

FairSync ==
  /\ Init /\ [][NextLive]_vars
  /\ WF_vars(RetryTimeoutFire)
  /\ WF_vars(\E t \in TimerIds : Tick(t))
  /\ WF_vars(\E c \in writeCalls : WriteFileResumed(c))
  /\ WF_vars(\E r \in bgReqs, outcome \in Outcomes : BgComplete(r, outcome))

\* and a store that eventually accepts: a batch that is sent again and again
\* is eventually answered with success
FairStore ==
  /\ FairSync
  /\ SF_vars(\E r \in bgReqs : BgComplete(r, "ok"))

\* the explicit flush: syncToProject over a files map with two files and a
\* folder, next to the binding and the queue engine
FlushWrites == {<<"/a.txt", "1">>, <<"/a.txt", "2">>, <<"/b.png", "1">>}

NextFlush ==
  \/ \E project \in {"A", Null} : SetProject(project)
  \/ \E w \in FlushWrites : Cardinality(writeCalls) < MaxCalls /\ WriteFile(w[1], w[2])
  \/ \E c \in writeCalls : WriteFileResumed(c)
  \/ \E path \in Dirs : MkDir(path)
  \/ SyncToProject
  \/ \E r \in fgReqs, outcome \in Outcomes : FgComplete(r, outcome)
  \/ \E r \in bgReqs, outcome \in Outcomes : BgComplete(r, outcome)
  \/ RetryTimeoutFire
  \/ \E t \in TimerIds : Tick(t)
  \/ AdvanceClock

SpecFlush == Init /\ [][NextFlush]_vars

\* the queue engine under a caller that does not await writeFile: calls to
\* the same path overlap and their virtual filesystem writes resolve in any
\* order
NextOrder ==
  \/ \E project \in {"A", Null} : SetProject(project)
  \/ \E w \in SyncWrites : WriteFile(w[1], w[2])
  \/ \E c \in writeCalls : WriteFileResumed(c)
  \/ \E r \in bgReqs, outcome \in Outcomes : BgComplete(r, outcome)
  \/ RetryTimeoutFire
  \/ \E t \in TimerIds : Tick(t)

SpecOrder == Init /\ [][NextOrder]_vars

\* the project store under concurrent requests: file writes run next to each
\* other and next to one update or open at a time
NextStore ==
  \/ \E p \in StoredProjects : CreateProject(p)
  \/ \E project \in ProjectIds, fs \in BatchLists : SrvReceive("batch", project, fs, Null)
  \/ \E project \in ProjectIds : (\A q \in srvReqs : q.kind = "batch") /\ SrvReceive("update", project, <<>>, "n1")
  \/ \E project \in ProjectIds : (\A q \in srvReqs : q.kind = "batch") /\ SrvReceive("open", project, <<>>, Null)
  \/ \E r \in srvReqs, outcome \in FsOutcomes : SrvFsWrite(r, outcome)
  \/ \E r \in srvReqs : SrvReadMeta(r)
  \/ \E r \in srvReqs : SrvSaveMeta(r)
  \/ \E r \in srvReqs : SrvForget(r)

SpecStore == Init /\ [][NextStore]_vars

\* the load of a project, with the binding and the queue engine it feeds
NextLoad ==
  \/ \E project \in {"A", Null} : SetProject(project)
  \/ \E list \in RemoteLists : LoadProjectFiles(list)
  \/ \E outcome \in Outcomes : LoadListSettles(outcome)
  \/ \E outcome \in Outcomes, content \in LoadContents : LoadFileSettles(outcome, content)
  \/ \E c \in writeCalls : WriteFileResumed(c)
  \/ \E r \in bgReqs, outcome \in Outcomes : BgComplete(r, outcome)
  \/ RetryTimeoutFire
  \/ \E t \in TimerIds : Tick(t)

SpecLoad == Init /\ [][NextLoad]_vars

\* ------------------------------------------------------------------ claims
Failures == {"notok", "reject"}
BgSendOps == {"enqueueSend", "tickSend", "retrySend"}
BatchPaths(fs) == {fs[i].path : i \in 1..Len(fs)}
InBatch(fs, path, content) ==
  \E i \in 1..Len(fs) : fs[i].path = path /\ fs[i].content = content

\* C1: when a background batch attempt fails, by a rejected fetch or by a
\* non-ok response, every path of the attempted snapshot is in the sync queue
\* again once the attempt has completed.
C1_FailedBatchRequeued ==
  [][\A r \in bgReqs, outcome \in Failures :
       BgComplete(r, outcome) => BatchPaths(r.files) \subseteq MapKeys(syncQueue')]_vars

\* C2: fresher wins on requeue.  When a background batch fails, a path of the
\* batch that writeFile enqueued again during the attempt keeps the content of
\* that later write; on a non-ok response a path that was not rewritten is
\* back with the content of the batch (its return after a rejected fetch is C1).
C2_FresherWinsOnRequeue ==
  [][\A r \in bgReqs, outcome \in Failures :
       BgComplete(r, outcome) =>
         \A i \in 1..Len(r.files) :
           LET p == r.files[i].path
           IN IF During[p] # Null
              THEN MapGet(syncQueue', p) = During[p]
              ELSE outcome = "notok" => MapGet(syncQueue', p) = r.files[i].content]_vars

\* C3: with a project bound and its periodic tick live from some point on, and
\* a store that eventually accepts, every write that writeFile enqueued is
\* eventually in a successful batch or superseded by a later write to its path.
C3_EveryWriteDelivered ==
  \A p \in Paths, c \in Contents :
    []((owed[p] = c /\ [](projectId # Null /\ syncInterval # 0)) => <>(owed[p] # c))

\* C4: coalescing.  The batch that a drain produces holds, for every path that
\* writeFile enqueued since the previous drain, exactly one entry, with the
\* content of the last of those writes.
C4_BatchHoldsLastWrite ==
  lastOp \in BgSendOps =>
    \A r \in bgReqs : \A p \in Paths :
      fresh[p] # Null =>
        /\ Cardinality({i \in 1..Len(r.files) : r.files[i].path = p}) = 1
        /\ InBatch(r.files, p, fresh[p])

\* C5: single flight.  At most one batch-write transmission, of the background
\* queue or of syncToProject, is outstanding in every reachable state.
C5_SingleFlight == Cardinality(bgReqs) + Cardinality(fgReqs) <= 1

\* C6: projectState.syncing is true in exactly the states in which a
\* batch-write transmission is outstanding.
C6_SyncingIffOutstanding ==
  projectState.syncing <=> (bgReqs # {} \/ fgReqs # {})

\* the entry (path, content) is in a batch that is being transmitted
Sent(path, content) == \E r \in bgReqs : InBatch(r.files, path, content)
\* the entry of path has been replaced by another write to the path
Superseded(path, content) ==
  \E c \in Contents \ {content} : MapGet(syncQueue, path) = c \/ Sent(path, c)

\* after a successful batch the queue holds exactly the writes enqueued during
\* the attempt, one entry a path
QueueIsWritesDuringAttempt ==
  lastOp = "bgOk" =>
    /\ \A p \in Paths : MapGet(syncQueue, p) = During[p]
    /\ Len(syncQueue) = Cardinality(MapKeys(syncQueue))

\* C7: the queue is drained before the batch is sent: after a successful batch
\* the queue holds exactly the writes enqueued during the attempt, and each of
\* them is sent in a later batch (a write replaced in the queue by a later
\* write to its path counts as sent with that one).
C7_Original ==
  /\ []QueueIsWritesDuringAttempt
  /\ \A p \in Paths, c \in Contents :
       []((lastOp = "bgOk" /\ MapGet(syncQueue, p) = c)
            => <>(Sent(p, c) \/ Superseded(p, c)))

\* C7 as amended: the same, the later batch being promised only as long as a
\* project stays bound.
C7_Amended ==
  /\ []QueueIsWritesDuringAttempt
  /\ \A p \in Paths, c \in Contents :
       []((lastOp = "bgOk" /\ MapGet(syncQueue, p) = c /\ [](projectId # Null))
            => <>(Sent(p, c) \/ Superseded(p, c)))

\* a batch has just succeeded with a project bound; the write of "2" to
\* /a.txt made during the attempt is the queue, and the follow-up is scheduled
C7_Witness ==
  /\ lastOp = "bgOk"
  /\ projectId # Null
  /\ During["/a.txt"] = "2"
  /\ syncQueue = <<[path |-> "/a.txt", content |-> "2", isBinary |-> FALSE]>>
  /\ retryTimeouts = 1

\* C8: a successful background batch leaves every path of the batch that was
\* not rewritten during the attempt out of the queue, sets
\* projectState.lastSyncedAt to the time of the completion and clears syncing.
C8_AfterSuccess ==
  [][\A r \in bgReqs :
       BgComplete(r, "ok") =>
         /\ \A p \in BatchPaths(r.files) : During[p] = Null => ~MapHas(syncQueue', p)
         /\ projectState'.lastSyncedAt = now
         /\ projectState'.syncing = FALSE]_vars

\* a success completes at a later clock reading than the drain, with /a.txt
\* rewritten during the attempt and /b.png, written before, gone from the queue
C8_Witness ==
  /\ lastOp = "bgOk"
  /\ now > 0
  /\ projectState.lastSyncedAt = now
  /\ During["/a.txt"] # Null
  /\ MapKeys(syncQueue) = {"/a.txt"}
  /\ files["/b.png"] # Null
  /\ owed["/b.png"] = Null

\* C9: every transmission (background batch, syncToProject batch, delete)
\* carries the project id bound when it starts, so none that starts after a
\* rebind carries the former id; and an interval timer fires only under the
\* binding it was created for.
C9_NoTransmissionForOldProject ==
  [][/\ \A r \in (bgReqs' \ bgReqs) \cup (fgReqs' \ fgReqs) : r.projectId = projectId'
     /\ \A r \in delReqs' \ delReqs : r.projectId = projectId'
     /\ \A t \in TimerIds : Tick(t) => timers[t] = projectId]_vars

\* bound to A with a batch for A still outstanding, rebound to B: the delete
\* that starts afterwards carries B and the only live timer is B's
C9_Witness ==
  /\ lastOp = "deleteSend"
  /\ projectId = "B"
  /\ \E r \in bgReqs : r.projectId = "A"
  /\ \E r \in delReqs : r.projectId = "B"
  /\ \A t \in TimerIds : timers[t] \in {Null, "B"}

\* C10: rebinding to a different project or to null, and dispose, leave the
\* sync queue empty.
C10_QueueDiscarded ==
  [][(\/ \E project \in ProjectIds \cup {Null} : project # projectId /\ SetProject(project)
      \/ Dispose) => syncQueue' = <<>>]_vars

\* C11: after dispose() or setProject(null), and until the next setProject, no
\* interval timer is live and no step starts a background batch: not the
\* enqueue of a later writeFile, not the 100 ms follow-up.
C11_NoAttemptAfterStop ==
  [][(syncInterval = 0) =>
       /\ \A t \in TimerIds : timers[t] = Null
       /\ bgReqs' \subseteq bgReqs]_vars

LiveTimers == {t \in TimerIds : timers[t] # Null}

\* C12: setProject(p) leaves projectState = {project: p, syncing: false,
\* lastSyncedAt: null} and exactly the timer it created live when p is a
\* project, none when p is null; dispose leaves none live; no other step
\* changes the timers; so at most one is live, exactly when a project is bound
\* and dispose has not run since.
C12_BindResetsStateOneTimer ==
  [][/\ \A project \in ProjectIds \cup {Null} :
          SetProject(project) =>
            /\ projectState' = [project |-> project, syncing |-> FALSE, lastSyncedAt |-> Never]
            /\ LiveTimers' = IF project # Null THEN {syncInterval'} ELSE {}
            /\ (project # Null => timers'[syncInterval'] = project)
     /\ (Dispose => LiveTimers' = {})
     /\ (~(Dispose \/ \E project \in ProjectIds \cup {Null} : SetProject(project))
           => timers' = timers)
     /\ Cardinality(LiveTimers') <= 1]_vars

\* a rebind from A to B while A's batch is outstanding: the state is reset and
\* the one live timer is B's
C12_Witness ==
  /\ lastOp = "setProject"
  /\ projectId = "B"
  /\ projectState = [project |-> "B", syncing |-> FALSE, lastSyncedAt |-> Never]
  /\ LiveTimers = {syncInterval}
  /\ \E r \in bgReqs : r.projectId = "A"

BatchInFlight == bgReqs # {} \/ fgReqs # {}

\* C13: a tick or follow-up that finds the queue empty, a batch transmission
\* in flight or no project bound starts no batch and changes neither the queue
\* nor projectState; the trigger of writeFile that finds a transmission in
\* flight or no project bound starts no batch and leaves projectState alone.
C13_IdleTriggerChangesNothing ==
  [][/\ ((RetryTimeoutFire \/ \E t \in TimerIds : Tick(t))
          /\ (Len(syncQueue) = 0 \/ BatchInFlight \/ projectId = Null))
        => (bgReqs' = bgReqs /\ syncQueue' = syncQueue /\ projectState' = projectState)
     /\ ((\E c \in writeCalls : WriteFileResumed(c)) /\ (BatchInFlight \/ projectId = Null))
        => (bgReqs' = bgReqs /\ projectState' = projectState)]_vars

\* C14: a completion that leaves the queue non-empty has scheduled the
\* follow-up, and a write whose trigger the guard swallowed is eventually in a
\* transmitted batch, or replaced by a later write, while a project stays
\* bound.
C14_SwallowedWriteSent ==
  /\ []((lastOp \in {"bgOk", "bgNotOk", "bgReject"} /\ Len(syncQueue) > 0)
          => retryTimeouts > 0)
  /\ \A p \in Paths, c \in Contents :
       []((lastOp = "enqueue" /\ owed[p] = c /\ MapGet(syncQueue, p) = c
           /\ [](projectId # Null))
            => <>(Sent(p, c) \/ owed[p] # c))

\* C15: a failed background batch settles #processSyncQueue normally, releases
\* the in-flight guard and clears projectState.syncing; the guard is never
\* held without a batch outstanding.
C15_BackgroundFailureContained ==
  [][/\ \A r \in bgReqs, outcome \in Failures :
          BgComplete(r, outcome) =>
            /\ lastOp' # "bgThrows"
            /\ ~isSyncing'
            /\ ~projectState'.syncing
            /\ bgReqs' = bgReqs \ {r}
     /\ (isSyncing' => bgReqs' # {})]_vars

\* a rejected batch has completed with a write waiting: the guard is free,
\* syncing is false and the follow-up is scheduled
C15_Witness ==
  /\ lastOp = "bgReject"
  /\ ~isSyncing
  /\ ~projectState.syncing
  /\ Len(syncQueue) > 0
  /\ retryTimeouts = 1

\* C16: syncToProject with no project bound throws before any network call
\* and leaves projectState and the sync queue as they were.
C16_SyncWithoutProjectRejected ==
  [][(SyncToProject /\ projectId = Null) =>
       /\ lastOp' = "syncThrowsNoProject"
       /\ fgReqs' = fgReqs /\ bgReqs' = bgReqs /\ delReqs' = delReqs
       /\ projectState' = projectState
       /\ syncQueue' = syncQueue]_vars

\* syncToProject has thrown with no project bound, a file in the virtual
\* filesystem and an entry left in the queue
C16_Witness ==
  /\ lastOp = "syncThrowsNoProject"
  /\ projectId = Null
  /\ files["/a.txt"] = "1"
  /\ Len(syncQueue) > 0

\* C17: when the batch of syncToProject fails, by a rejected fetch or a non-ok
\* response, syncToProject rejects, syncing is cleared, lastSyncedAt and the
\* project of projectState, the files map and the sync queue are unchanged.
C17_SyncFailurePropagates ==
  [][\A r \in fgReqs, outcome \in Failures :
       FgComplete(r, outcome) =>
         /\ lastOp' = "fgThrows"
         /\ ~projectState'.syncing
         /\ projectState'.lastSyncedAt = projectState.lastSyncedAt
         /\ projectState'.project = projectState.project
         /\ files' = files
         /\ syncQueue' = syncQueue]_vars

\* a syncToProject has failed after an earlier success: the timestamp of that
\* success is still there
C17_Witness ==
  /\ lastOp = "fgThrows"
  /\ ~projectState.syncing
  /\ projectState.lastSyncedAt # Never
  /\ files["/a.txt"] = "1"

\* C18: the batch of syncToProject holds exactly one entry for every file of
\* the files map, with its content, and none for a folder or an absent path;
\* with no file no request is made.
C18_SyncSendsEveryFile ==
  [][(SyncToProject /\ projectId # Null) =>
       IF \E p \in Paths : files[p] \in Contents
       THEN \E r \in fgReqs' :
              /\ fgReqs' \ fgReqs = {r}
              /\ \A p \in Paths :
                   IF files[p] \in Contents
                   THEN /\ Cardinality({i \in 1..Len(r.files) : r.files[i].path = p}) = 1
                        /\ InBatch(r.files, p, files[p])
                   ELSE p \notin BatchPaths(r.files)
       ELSE fgReqs' = fgReqs]_vars

\* syncToProject has sent both files, neither of them in the queue, with their
\* present contents, and nothing for the folder of the files map
C18_Witness ==
  /\ lastOp = "syncSend"
  /\ files["/lib"] = Folder
  /\ files["/a.txt"] = "2"
  /\ files["/b.png"] = "1"
  /\ syncQueue = <<>>
  /\ bgReqs = {}
  /\ \E r \in fgReqs :
       /\ BatchPaths(r.files) = {"/a.txt", "/b.png"}
       /\ InBatch(r.files, "/a.txt", "2")

\* C19: no step of removeFile touches the sync queue; when it resumes with a
\* project bound it sends one delete call for the path, with none bound it
\* sends nothing; a delete call that settles, failed or not, is not sent again
\* and does not reject removeFile.
C19_RemoveBypassesQueue ==
  [][/\ \A path \in Paths :
          RemoveFile(path) => (syncQueue' = syncQueue /\ delReqs' = delReqs)
     /\ \A path \in removeCalls :
          RemoveFileResumed(path) =>
            /\ syncQueue' = syncQueue
            /\ bgReqs' = bgReqs /\ fgReqs' = fgReqs
            /\ IF projectId # Null
               THEN /\ delReqs' \ delReqs = {[projectId |-> projectId, path |-> path]}
                    /\ delReqs \subseteq delReqs'
               ELSE delReqs' = delReqs
     /\ \A r \in delReqs, outcome \in Outcomes :
          DeleteComplete(r, outcome) =>
            /\ lastOp' # "deleteThrows"
            /\ syncQueue' = syncQueue
            /\ delReqs' = delReqs \ {r}
            /\ removeCalls' = removeCalls
            /\ bgReqs' = bgReqs /\ fgReqs' = fgReqs]_vars

\* /a.txt has been removed with its write still queued: the delete call is out
\* and the queue entry is untouched
C19_Witness ==
  /\ lastOp = "deleteSend"
  /\ files["/a.txt"] = Null
  /\ MapHas(syncQueue, "/a.txt")
  /\ \E r \in delReqs : r.path = "/a.txt" /\ r.projectId = projectId

\* C20: when loadProjectFiles has completed, the paths it wrote to the virtual
\* filesystem are the listed paths whose fetch succeeded, and every path whose
\* fetch failed, by a rejected fetch or a non-ok response, was logged exactly
\* once.
C20_LoadPartialSuccess ==
  load.pc = "done" =>
    /\ load.wrote \cap load.failed = {}
    /\ \A p \in load.wrote : files[p] \in Contents
    /\ \A p \in Paths :
         Cardinality({i \in 1..Len(load.logged) : load.logged[i] = p})
           = IF p \in load.failed THEN 1 ELSE 0

\* C21: when a writeFile call resumes with a batch in flight, and a call made
\* after it for the same path has put its content in the queue since the last
\* drain, the queue entry of the path keeps the content of the later call.
C21_LastCallWins ==
  [][\A d \in writeCalls :
       (/\ WriteFileResumed(d)
        /\ isSyncing /\ projectId # Null
        /\ d.behind # Null
        /\ During[d.path] = d.behind
        /\ MapGet(syncQueue, d.path) = d.behind)
         => MapGet(syncQueue', d.path) = d.behind]_vars

\* C22: the writes of loadProjectFiles into the virtual filesystem add nothing
\* to the sync queue and start no batch-write.
C22_LoadOutsideSyncLoop ==
  [][\A c \in writeCalls :
       (WriteFileResumed(c) /\ load.pc = "write" /\ Head(load.rest) = c.path)
         => (syncQueue' = syncQueue /\ bgReqs' = bgReqs)]_vars

\* C24: every entry of a background batch that starts with project id P was
\* enqueued by writeFile, or put back by a failed batch for P, while P was
\* bound.
C24_ProjectIsolation ==
  [][\A r \in bgReqs' \ bgReqs : \A p \in BatchPaths(r.files) :
       \/ origin[p] = r.projectId
       \/ \E c \in writeCalls : c.path = p /\ WriteFileResumed(c)]_vars

\* C25: a background batch that starts holds no entry for a path that
\* removeFile has removed with a project bound, with no writeFile call for the
\* path suspended at that time or made since.
C25_NoWriteAfterRemove ==
  [][\A r \in bgReqs' \ bgReqs : \A p \in BatchPaths(r.files) : p \notin removed]_vars

\* C26: if from some point on a project stays bound with its tick live and no
\* writeFile call is suspended (the calls have stopped), then with a store
\* that accepts the system comes to rest with the queue empty, no batch
\* outstanding and no write of the binding left undelivered.
C26_Convergence ==
  <>[](projectId # Null /\ syncInterval # 0 /\ writeCalls = {})
    => <>[](/\ syncQueue = <<>>
            /\ bgReqs = {}
            /\ \A p \in Paths : owed[p] = Null)

\* C27: lastSyncedAt is null while no project is bound, and the completion of
\* a batch that started under another binding changes neither lastSyncedAt
\* nor syncing.
C27_StampOnlyForBoundProject ==
  [][/\ (projectId' = Null => projectState'.lastSyncedAt = Never)
     /\ \A r \in bgReqs, outcome \in Outcomes :
          (BgComplete(r, outcome) /\ r.projectId # projectId)
            => /\ projectState'.lastSyncedAt = projectState.lastSyncedAt
               /\ projectState'.syncing = projectState.syncing]_vars

\* no project bound, nothing queued, nothing outstanding, nothing scheduled
UnboundQuiet ==
  /\ projectId = Null
  /\ syncQueue = <<>>
  /\ bgReqs = {} /\ fgReqs = {} /\ delReqs = {}
  /\ retryTimeouts = 0

\* C28: with no project bound, the steps of writeFile and removeFile leave the
\* queue, the outstanding calls and projectState as they are; and from the
\* initial state, as long as no project is bound, the queue stays empty and
\* nothing is outstanding.
C28_UnboundOnlyVfs ==
  [][/\ (/\ projectId = Null
         /\ \/ \E path \in Paths, content \in Contents : WriteFile(path, content)
            \/ \E c \in writeCalls : WriteFileResumed(c)
            \/ \E path \in Paths : RemoveFile(path)
            \/ \E path \in removeCalls : RemoveFileResumed(path))
        => /\ syncQueue' = syncQueue
           /\ bgReqs' = bgReqs /\ fgReqs' = fgReqs /\ delReqs' = delReqs
           /\ projectState' = projectState
     /\ (UnboundQuiet /\ projectId' = Null) => UnboundQuiet']_vars

\* with no project ever bound, /a.txt has been written to the virtual
\* filesystem and its removal is under way: nothing is queued or outstanding
C28_Witness ==
  /\ UnboundQuiet
  /\ projectState = [project |-> Null, syncing |-> FALSE, lastSyncedAt |-> Never]
  /\ \A t \in TimerIds : timers[t] = Null
  /\ files["/a.txt"] = "1"
  /\ "/a.txt" \in removeCalls

\* C23: the batch-write action writes the files in list order and stops at the
\* first failure: a batch that failed at its k-th file has written files
\* 1..k-1, which are in the store, and none after k, and answers 500; a batch
\* whose writes all succeeded answers 200 with count the length of the batch.
C23_BatchNotAtomic ==
  \A r \in srvReqs :
    r.kind = "batch" =>
      /\ \A i \in r.wrote : disk[r.project][r.files[i].path] # Null
      /\ r.pc # "done" => r.wrote \in {1..(r.k - 1), 1..r.k}
      /\ r.pc = "done" =>
           IF r.status = 200
           THEN r.wrote = 1..Len(r.files) /\ r.count = Len(r.files)
           ELSE /\ r.status = 500
                /\ r.failedAt \in 1..Len(r.files)
                /\ 1..(r.failedAt - 1) \subseteq r.wrote
                /\ r.wrote \subseteq 1..r.failedAt

\* a batch of two files for an existing project has failed at its second
\* file: the first is in the store, the second is not
C23_Witness ==
  \E r \in srvReqs :
    /\ r.kind = "batch" /\ r.project = "A" /\ Len(r.files) = 2
    /\ r.pc = "done" /\ r.status = 500 /\ r.failedAt = 2
    /\ r.wrote = {1}
    /\ meta["A"] # NoMeta
    /\ disk["A"]["/a.txt"] = "1"
    /\ disk["A"]["/b.png"] = Null

\* C29: a step of ProjectStorage.writeFile for a project id without metadata
\* creates no project directory and no file.
C29_WriteToUnknownProject ==
  [][\A r \in srvReqs, outcome \in FsOutcomes :
       (SrvFsWrite(r, outcome) /\ meta[r.project] = NoMeta)
         => (projDir' = projDir /\ disk' = disk)]_vars

\* C30: an update or open action runs next to file writes to the same
\* project: when every request has finished, the name set by a completed update
\* and the lastOpenedAt set by a completed open are in the stored metadata.
C30_MetadataUpdatesKept ==
  (\A q \in srvReqs : q.pc = "done") =>
    \A r \in srvReqs :
      (r.status = 200 /\ meta[r.project] # NoMeta) =>
        /\ r.kind = "update" => meta[r.project].name = r.name
        /\ r.kind = "open" => meta[r.project].opened

TypeOK ==
  /\ projectId \in ProjectIds \cup {Null}
  /\ syncInterval \in TimerIds \cup {0}
  /\ isSyncing \in BOOLEAN
  /\ sealed \in BOOLEAN
  /\ retryTimeouts \in 0..MaxRetry
  /\ now \in 0..MaxTime

====
